---- MODULE Spec2Model ----
(***************************************************************************)
(* Model of send_slack_reminder.py: PRReminder.run fetches the open pull   *)
(* requests of a Bitbucket repository, decides per PR who has to act, and  *)
(* posts one digest to a Slack webhook.                                    *)
(*                                                                         *)
(* Conventions.  A JSON object is a function from string keys (a record).  *)
(* Python's None, an absent --pr and an absent --users are modelled by the *)
(* values the code's truth tests cannot tell from them: the empty         *)
(* function, 0 and the empty set.  A veto's detailedMessage is the         *)
(* sequence of its words, so that the substring test is a real search.     *)
(* The page-size argument `limit` only travels into the request URL and is *)
(* not part of the state.                                                  *)
(***************************************************************************)
EXTENDS Integers, Sequences, FiniteSets, TLC

VARIABLES pc, pr_id, users, response, raw_prs, all_prs, idx, slack_msgs,
          merge_status_resolver, undone_tasks, people_to_ping,
          requests, posts, stdout, error

vars == <<pc, pr_id, users, response, raw_prs, all_prs, idx, slack_msgs,
          merge_status_resolver, undone_tasks, people_to_ping,
          requests, posts, stdout, error>>

(***************************************************************************)
(* Bounds                                                                  *)
(***************************************************************************)
MaxPRs == 2
MaxReviewers == 2
MaxVetoes == 2
MaxTasks == 2

(***************************************************************************)
(* Generic helpers                                                         *)
(***************************************************************************)
None == [k \in {} |-> 0]

SeqsUpTo(S, n) == UNION {[1..k -> S] : k \in 0..n}

Range(s) == {s[i] : i \in DOMAIN s}

Perms(S) == {s \in [1..Cardinality(S) -> S] : Range(s) = S}

RECURSIVE Join(_, _)
Join(s, sep) ==
    IF s = <<>> THEN ""
    ELSE IF Len(s) = 1 THEN s[1]
    ELSE s[1] \o sep \o Join(Tail(s), sep)

Contains(text, marker) ==
    \E i \in 1..(Len(text) - Len(marker) + 1) :
        SubSeq(text, i, i + Len(marker) - 1) = marker

Raise(e) == [raised |-> e, value |-> None]

Return(v) == [raised |-> "none", value |-> v]

(***************************************************************************)
(* Configuration (local_scripts.secrets) and module constants              *)
(***************************************************************************)
BITBUCKET_REPO_LINK == "repo"

BITBUCKET_USER_NAME_TO_SLACK_USER_NAME == [carol |-> "caz"]

PR_BASE_LINK(id) ==
    BITBUCKET_REPO_LINK \o "/pull-requests/" \o ToString(id) \o "/overview"

MSG_TEMPLATE(pr_link, pr_title, people) ==
    "<" \o pr_link \o "|" \o pr_title \o ">\nWaiting for: " \o people \o "\n"

VETO_REASONS_WE_IGNORE ==
    {"Requires approvals",
     "Requires all tasks to be resolved",
     "Insufficient branch permissions"}

VETO_BUILD_NOT_FINISHED == "Not all required builds are successful yet"

FAILED_BUILDS_MARKER == <<"has", "failed", "builds">>

StateKey == "state "

(***************************************************************************)
(* What the two HTTP services can answer                                   *)
(***************************************************************************)
BitbucketUsers == {"alice", "bob", "carol"}

ReviewerLists(author, n) ==
    {rs \in SeqsUpTo([user : [name : BitbucketUsers \ {author}],
                      status : {"APPROVED", "UNAPPROVED"}], n) :
        \A i, j \in DOMAIN rs : i # j => rs[i].user.name # rs[j].user.name}

PRPayload(id, a, rs, st) ==
    [id |-> id, title |-> "Fix bug", state |-> st,
     author |-> [user |-> [name |-> a]], reviewers |-> rs]

PRPayloads(id, n) ==
    UNION {{PRPayload(id, a, rs, "OPEN") : rs \in ReviewerLists(a, n)} :
           a \in BitbucketUsers}

VetoEntries(others) ==
    {[summaryMessage |-> m, detailedMessage |-> <<"blocked">>] :
        m \in VETO_REASONS_WE_IGNORE \cup others}
    \cup
    {[summaryMessage |-> VETO_BUILD_NOT_FINISHED, detailedMessage |-> d] :
        d \in {<<"commit", "has", "failed", "builds">>,
               <<"builds", "in", "progress">>}}

MergeStatuses(n) ==
    [conflicted : BOOLEAN,
     vetoes : SeqsUpTo(VetoEntries({"Needs rebase", "Branch is frozen"}), n)]

TaskEntries(texts) ==
    {[state |-> "OPEN", text |-> t] : t \in texts}
    \cup {[state |-> "RESOLVED", text |-> "rename"]}

TaskPages(n) ==
    [values : SeqsUpTo(TaskEntries({"fix typo", "add test"}), n)]

Responses(payloads) ==
    {[status_code |-> 200, json |-> j] : j \in payloads \cup {None}}
    \cup {[status_code |-> 500, json |-> None]}

(* The whole run is explored over PRs by two authors with at most one     *)
(* reviewer, merge statuses with at most one veto and task pages with at  *)
(* most one task; the variety of one PR's payloads is SpecCollect's.      *)
RunPRs(id, states) ==
    {PRPayload(id, a, rs, st) :
        a \in {"alice", "carol"},
        rs \in {<<>>, <<[user |-> [name |-> "bob"], status |-> "UNAPPROVED"]>>,
                      <<[user |-> [name |-> "bob"], status |-> "APPROVED"]>>},
        st \in states}

RECURSIVE RunPRLists(_)
RunPRLists(k) ==
    IF k = 0 THEN {<<>>}
    ELSE RunPRLists(k - 1) \cup
         {Append(l, p) : l \in {m \in RunPRLists(k - 1) : Len(m) = k - 1},
                         p \in RunPRs(k, {"OPEN"})}

OnePrResponses(id) == Responses(RunPRs(id, {"OPEN", "MERGED", "DECLINED"}))

ListResponses == Responses([values : RunPRLists(MaxPRs)])

PostStatuses == {200, 500}

(***************************************************************************)
(* PRFetcher                                                               *)
(***************************************************************************)
FetchUrl(resp) ==
    IF resp.status_code # 200 THEN Raise("Exception")
    ELSE IF DOMAIN resp.json = {} THEN Raise("Exception")
    ELSE Return(resp.json)

fetch_one_pr(resp) ==
    LET r == FetchUrl(resp) IN
    IF r.raised # "none" THEN r
    ELSE IF StateKey \notin DOMAIN r.value THEN Raise("KeyError")
    ELSE IF r.value[StateKey] # "OPEN" THEN Return(None)
    ELSE r

fetch_all_prs(resp) ==
    LET r == FetchUrl(resp) IN
    IF r.raised # "none" THEN r ELSE Return(r.value.values)

OpenTaskTexts(raw_tasks) ==
    LET open == SelectSeq(raw_tasks, LAMBDA t : t.state = "OPEN")
    IN  [i \in DOMAIN open |-> open[i].text]

fetch_open_tasks_Swallow(resp) ==
    LET r == FetchUrl(resp) IN
    IF r.raised # "none" THEN Return(<<>>)
    ELSE Return(OpenTaskTexts(IF "values" \in DOMAIN r.value
                              THEN r.value.values ELSE <<>>))

fetch_open_tasks(resp) ==
    LET r == FetchUrl(resp) IN
    IF r.raised # "none" THEN r
    ELSE Return(OpenTaskTexts(IF "values" \in DOMAIN r.value
                              THEN r.value.values ELSE <<>>))

fetch_mergeable_status(resp) == FetchUrl(resp)

(***************************************************************************)
(* SlackHandler, PRResolver                                                *)
(***************************************************************************)
get_slack_name_of(pr_user_name) ==
    "@" \o (IF pr_user_name \in DOMAIN BITBUCKET_USER_NAME_TO_SLACK_USER_NAME
            THEN BITBUCKET_USER_NAME_TO_SLACK_USER_NAME[pr_user_name]
            ELSE pr_user_name)

author_name(pr_data) == pr_data.author.user.name

get_undone_reviewers_AnyStatus(pr_data) ==
    {get_slack_name_of(pr_data.reviewers[i].user.name) :
        i \in DOMAIN pr_data.reviewers}

get_undone_reviewers(pr_data) ==
    {get_slack_name_of(pr_data.reviewers[i].user.name) :
        i \in {j \in DOMAIN pr_data.reviewers :
                  pr_data.reviewers[j].status = "UNAPPROVED"}}

(***************************************************************************)
(* PRIsMergeableResolver                                                   *)
(***************************************************************************)
ResolveVeto_FallThrough(self, veto) ==
    LET veto_msg == veto.summaryMessage
        flagged ==
            IF veto_msg = VETO_BUILD_NOT_FINISHED
            THEN IF Contains(veto.detailedMessage, FAILED_BUILDS_MARKER)
                 THEN [self EXCEPT !.builds_have_failed = TRUE]
                 ELSE [self EXCEPT !.builds_in_progress = TRUE]
            ELSE self
    IN  IF veto_msg \in VETO_REASONS_WE_IGNORE THEN self
        ELSE [flagged EXCEPT !.valid_vetos = @ \cup {veto_msg}]

ResolveVeto(self, veto) ==
    LET veto_msg == veto.summaryMessage IN
    IF veto_msg \in VETO_REASONS_WE_IGNORE THEN self
    ELSE IF veto_msg = VETO_BUILD_NOT_FINISHED
         THEN IF Contains(veto.detailedMessage, FAILED_BUILDS_MARKER)
              THEN [self EXCEPT !.builds_have_failed = TRUE]
              ELSE [self EXCEPT !.builds_in_progress = TRUE]
    ELSE [self EXCEPT !.valid_vetos = @ \cup {veto_msg}]

RECURSIVE ResolveLoop(_, _)
ResolveLoop(self, vetoes) ==
    IF vetoes = <<>> THEN self
    ELSE ResolveLoop(ResolveVeto(self, Head(vetoes)), Tail(vetoes))

resolve_reasons(self) ==
    ResolveLoop([self EXCEPT !.valid_vetos = {},
                             !.is_conflicted = self.merge_status.conflicted],
                self.merge_status.vetoes)

PRIsMergeableResolver(merge_status) ==
    resolve_reasons([merge_status |-> merge_status,
                     valid_vetos |-> {},
                     is_conflicted |-> FALSE,
                     builds_in_progress |-> FALSE,
                     builds_have_failed |-> FALSE])

merge_vetos(self) == self.valid_vetos

(***************************************************************************)
(* PRReminder                                                              *)
(***************************************************************************)
FilterByUsers(prs, us) ==
    SelectSeq(prs, LAMBDA pr_data : us # {} /\ author_name(pr_data) \in us)

prepare_pr_objects(id, us, resp) ==
    LET fetched == IF id # 0 THEN fetch_one_pr(resp) ELSE fetch_all_prs(resp)
        raw == IF id # 0
               THEN (IF DOMAIN fetched.value # {} THEN <<fetched.value>>
                     ELSE <<>>)
               ELSE fetched.value
    IN  IF fetched.raised # "none" THEN fetched
        ELSE Return([raw_prs |-> raw, all_prs |-> FilterByUsers(raw, us)])

NoOpenPrs_Never(prs) == FALSE

NoOpenPrs(prs) == prs = <<>>

EarlyVerdict_Never(self, pr_author) == {}

EarlyVerdict_FailedFirst(self, pr_author) ==
    IF self.builds_have_failed THEN {pr_author \o " (builds FAILED)"}
    ELSE IF self.is_conflicted THEN {pr_author \o " (merge CONFLICT)"}
    ELSE {}

EarlyVerdict(self, pr_author) ==
    IF self.is_conflicted THEN {pr_author \o " (merge CONFLICT)"}
    ELSE IF self.builds_have_failed THEN {pr_author \o " (builds FAILED)"}
    ELSE {}

authors_unfinished_work(self, tasks) ==
    (IF merge_vetos(self) # {} THEN merge_vetos(self) ELSE {})
    \cup (IF tasks # <<>> THEN {"open tasks: " \o Join(tasks, " & ")} ELSE {})

AuthorEntry(pr_author, work_order) ==
    pr_author \o " (" \o Join(work_order, "; ") \o ")"

LateVerdict_NoFallback(pr_data, pr_author, work_order) ==
    get_undone_reviewers(pr_data) \cup
    (IF work_order # <<>> THEN {AuthorEntry(pr_author, work_order)} ELSE {})

LateVerdict(pr_data, pr_author, work_order) ==
    LET pinged == get_undone_reviewers(pr_data) \cup
                  (IF work_order # <<>>
                   THEN {AuthorEntry(pr_author, work_order)} ELSE {})
    IN  IF pinged # {} THEN pinged ELSE {pr_author}

Request(kind, id, resp) ==
    [kind |-> kind, pr_id |-> id, status_code |-> resp.status_code,
     empty |-> (DOMAIN resp.json = {})]

Init ==
    /\ pc = "start"
    /\ pr_id \in {0, 1}
    /\ users \in {{}, {"alice"}, {"alice", "carol"}}
    /\ response = None
    /\ raw_prs = <<>>
    /\ all_prs = <<>>
    /\ idx = 0
    /\ slack_msgs = <<>>
    /\ merge_status_resolver = None
    /\ undone_tasks = <<>>
    /\ people_to_ping = {}
    /\ requests = <<>>
    /\ posts = <<>>
    /\ stdout = <<>>
    /\ error = "none"

(* run, lines 198-204: _prepare_pr_objects and the empty-list exit *)
Prepare ==
    /\ pc = "start"
    /\ \E resp \in (IF pr_id # 0 THEN OnePrResponses(pr_id) ELSE ListResponses) :
         LET r == prepare_pr_objects(pr_id, users, resp) IN
         /\ response' = resp
         /\ requests' = Append(requests,
                Request(IF pr_id # 0 THEN "pr" ELSE "list", pr_id, resp))
         /\ IF r.raised # "none"
            THEN /\ pc' = "raised"
                 /\ error' = r.raised
                 /\ UNCHANGED <<raw_prs, all_prs, idx, stdout>>
            ELSE /\ raw_prs' = r.value.raw_prs
                 /\ all_prs' = r.value.all_prs
                 /\ error' = error
                 /\ IF NoOpenPrs(r.value.all_prs)
                    THEN /\ stdout' = Append(stdout, "No open PRs found")
                         /\ pc' = "done"
                         /\ idx' = idx
                    ELSE /\ stdout' = stdout
                         /\ pc' = IF Len(r.value.all_prs) >= 1
                                  THEN "loop" ELSE "send"
                         /\ idx' = 1
    /\ UNCHANGED <<pr_id, users, slack_msgs, merge_status_resolver,
                   undone_tasks, people_to_ping, posts>>

(* run, lines 206-212: the verdict of one PR becomes one message *)
Finish(pr_data, verdict) ==
    /\ people_to_ping' = verdict
    /\ \E order \in Perms(verdict) :
         slack_msgs' = Append(slack_msgs,
             MSG_TEMPLATE(PR_BASE_LINK(pr_data.id), pr_data.title,
                          Join(order, ", ")))
    /\ idx' = idx + 1
    /\ pc' = IF idx + 1 > Len(all_prs) THEN "send" ELSE "loop"

(* _collect_people_to_ping, lines 218-225 *)
CollectMerge(responses) ==
    /\ pc = "loop"
    /\ \E resp \in responses :
         LET pr_data == all_prs[idx]
             pr_author == get_slack_name_of(author_name(pr_data))
             r == fetch_mergeable_status(resp)
         IN
         /\ response' = resp
         /\ requests' = Append(requests, Request("merge", pr_data.id, resp))
         /\ undone_tasks' = <<>>
         /\ IF r.raised # "none"
            THEN /\ pc' = "raised"
                 /\ error' = r.raised
                 /\ UNCHANGED <<merge_status_resolver, people_to_ping,
                                slack_msgs, idx>>
            ELSE LET self == PRIsMergeableResolver(r.value) IN
                 /\ merge_status_resolver' = self
                 /\ error' = error
                 /\ IF EarlyVerdict(self, pr_author) # {}
                    THEN Finish(pr_data, EarlyVerdict(self, pr_author))
                    ELSE /\ pc' = "tasks"
                         /\ UNCHANGED <<people_to_ping, slack_msgs, idx>>
    /\ UNCHANGED <<pr_id, users, raw_prs, all_prs, posts, stdout>>

(* _collect_people_to_ping, lines 227-250 *)
CollectTasks(responses) ==
    /\ pc = "tasks"
    /\ \E resp \in responses :
         LET pr_data == all_prs[idx]
             pr_author == get_slack_name_of(author_name(pr_data))
             r == fetch_open_tasks(resp)
         IN
         /\ response' = resp
         /\ requests' = Append(requests, Request("tasks", pr_data.id, resp))
         /\ IF r.raised # "none"
            THEN /\ pc' = "raised"
                 /\ error' = r.raised
                 /\ UNCHANGED <<undone_tasks, people_to_ping, slack_msgs, idx>>
            ELSE /\ undone_tasks' = r.value
                 /\ error' = error
                 /\ \E work_order \in
                        Perms(authors_unfinished_work(merge_status_resolver,
                                                      r.value)) :
                      Finish(pr_data,
                             LateVerdict(pr_data, pr_author, work_order))
    /\ UNCHANGED <<pr_id, users, raw_prs, all_prs, merge_status_resolver,
                   posts, stdout>>

(* SlackHandler.send_reminders, called at line 214 *)
Send ==
    /\ pc = "send"
    /\ posts' = Append(posts, Join(slack_msgs, "\n"))
    /\ \E status_code \in PostStatuses :
         IF status_code = 200
         THEN pc' = "done" /\ error' = error
         ELSE pc' = "raised" /\ error' = "AssertionError"
    /\ UNCHANGED <<pr_id, users, response, raw_prs, all_prs, idx, slack_msgs,
                   merge_status_resolver, undone_tasks, people_to_ping,
                   requests, stdout>>

RunMergeResponses ==
    Responses([conflicted : BOOLEAN,
               vetoes : {<<>>} \cup
                        {<<v>> : v \in VetoEntries({"Needs rebase"})}])

RunTaskResponses ==
    Responses([values : {<<>>} \cup {<<t>> : t \in TaskEntries({"fix typo"})}])

Next ==
    \/ Prepare
    \/ CollectMerge(RunMergeResponses)
    \/ CollectTasks(RunTaskResponses)
    \/ Send

Spec == Init /\ [][Next]_vars

(***************************************************************************)
(* One call of _collect_people_to_ping on a richer PR: run(users=[author]) *)
(* after the list fetch has returned that one PR.                          *)
(***************************************************************************)
InitCollect ==
    \E pr_data \in PRPayloads(1, MaxReviewers) :
        LET resp == [status_code |-> 200, json |-> [values |-> <<pr_data>>]]
        IN
        /\ pc = "loop"
        /\ pr_id = 0
        /\ users = {author_name(pr_data)}
        /\ response = resp
        /\ raw_prs = <<pr_data>>
        /\ all_prs = <<pr_data>>
        /\ idx = 1
        /\ slack_msgs = <<>>
        /\ merge_status_resolver = None
        /\ undone_tasks = <<>>
        /\ people_to_ping = {}
        /\ requests = <<Request("list", 0, resp)>>
        /\ posts = <<>>
        /\ stdout = <<>>
        /\ error = "none"

CollectMergeResponses == Responses(MergeStatuses(MaxVetoes))

CollectTaskResponses == Responses(TaskPages(MaxTasks))

NextCollect ==
    \/ CollectMerge(CollectMergeResponses)
    \/ CollectTasks(CollectTaskResponses)

SpecCollect == InitCollect /\ [][NextCollect]_vars

(***************************************************************************)
(* Vocabulary of the properties                                            *)
(***************************************************************************)
FailedRequest(q) == q.status_code # 200 \/ q.empty

RequestsOf(kind, id) ==
    {k \in DOMAIN requests : requests[k].kind = kind /\ requests[k].pr_id = id}

PerPrRequests == {k \in DOMAIN requests : requests[k].kind \in {"merge", "tasks"}}

(* _collect_people_to_ping has returned for the PR at position idx - 1 *)
Verdicted ==
    /\ merge_status_resolver # None
    /\ idx >= 2
    /\ pc \in {"loop", "send", "done"} \/ error = "AssertionError"

LastPr == all_prs[idx - 1]

LastAuthor == get_slack_name_of(author_name(LastPr))

LastMergeStatus == merge_status_resolver.merge_status

LastSummaries == {LastMergeStatus.vetoes[i].summaryMessage :
                     i \in DOMAIN LastMergeStatus.vetoes}

HasFailedBuildsVeto(ms) ==
    \E i \in DOMAIN ms.vetoes :
        /\ ms.vetoes[i].summaryMessage = VETO_BUILD_NOT_FINISHED
        /\ Contains(ms.vetoes[i].detailedMessage, FAILED_BUILDS_MARKER)

OtherValidVetoes ==
    LastSummaries \ (VETO_REASONS_WE_IGNORE \cup {VETO_BUILD_NOT_FINISHED})

ReviewersWith(status) ==
    {LastPr.reviewers[i].user.name :
        i \in {j \in DOMAIN LastPr.reviewers :
                  LastPr.reviewers[j].status = status}}

Handles(names) == {get_slack_name_of(n) : n \in names}

LastRequest == requests[Len(requests)]

TasksAnswered == LastRequest.kind = "tasks" /\ ~FailedRequest(LastRequest)

OpenTasksOfPage ==
    SelectSeq(response.json.values, LAMBDA t : t.state = "OPEN")

OpenTasksText ==
    IF OpenTasksOfPage = <<>> THEN {}
    ELSE {"open tasks: " \o
          Join([i \in DOMAIN OpenTasksOfPage |-> OpenTasksOfPage[i].text],
               " & ")}

UnfinishedWork == OtherValidVetoes \cup OpenTasksText

AnnotatedAuthorEntries ==
    {LastAuthor \o " (" \o Join(o, "; ") \o ")" : o \in Perms(UnfinishedWork)}

(***************************************************************************)
(* C1: run with no flags processes every open PR: each PR returned by      *)
(* fetch_all_prs gets exactly one message in the digest that is posted.    *)
(* The code drops every PR when users is absent, so this is violated.      *)
(***************************************************************************)
C1_NoFlagsRemindsEveryPr ==
    (pc = "done" /\ pr_id = 0 /\ users = {} /\ raw_prs # <<>>) =>
        /\ Len(posts) = 1
        /\ Len(slack_msgs) = Len(raw_prs)
        /\ posts[1] = Join(slack_msgs, "\n")

(***************************************************************************)
(* C2: fetch_one_pr on a successfully fetched PR returns None when its     *)
(* state is not OPEN (the run then ends with nothing to report and no      *)
(* post) and the payload when it is OPEN; it never raises.  The code reads *)
(* the key "state " and raises KeyError, so this is violated.              *)
(***************************************************************************)
C2_NonOpenPrIsNothingToReport ==
    (pr_id # 0 /\ Len(requests) = 1 /\ ~FailedRequest(requests[1])) =>
        /\ error = "none"
        /\ response.json.state # "OPEN" =>
               raw_prs = <<>> /\ pc = "done" /\ posts = <<>>
        /\ response.json.state = "OPEN" => raw_prs = <<response.json>>

(***************************************************************************)
(* C3: once any review-API fetch has answered with a non-200 status or an  *)
(* empty body, the run has aborted with a fatal error and nothing is       *)
(* posted; the webhook is posted to at most once, and only after every     *)
(* processed PR had its fetches answered successfully.                     *)
(***************************************************************************)
C3_FailedFetchNeverPosts ==
    /\ (\E k \in DOMAIN requests : FailedRequest(requests[k])) =>
           pc = "raised" /\ error = "Exception" /\ posts = <<>>
    /\ Len(posts) <= 1
    /\ posts # <<>> =>
           /\ \A k \in DOMAIN requests : ~FailedRequest(requests[k])
           /\ idx > Len(all_prs)
           /\ Len(slack_msgs) = Len(all_prs)
           /\ \A i \in DOMAIN all_prs : RequestsOf("merge", all_prs[i].id) # {}

C3_Witness ==
    /\ pc = "raised"
    /\ error = "Exception"
    /\ slack_msgs # <<>>
    /\ posts = <<>>
    /\ LastRequest.kind = "tasks"
    /\ LastRequest.pr_id = 2
    /\ FailedRequest(LastRequest)

(***************************************************************************)
(* C4: a PR whose merge status says conflicted gets exactly the ping set   *)
(* {"<author handle> (merge CONFLICT)"}, whatever its reviewers, tasks and *)
(* vetoes are, a failed-builds veto included.                              *)
(***************************************************************************)
C4_ConflictPingsAuthorOnly ==
    (merge_status_resolver # None /\ LastMergeStatus.conflicted) =>
        /\ Verdicted \/ pc = "raised"
        /\ idx >= 2
        /\ people_to_ping = {LastAuthor \o " (merge CONFLICT)"}
        /\ RequestsOf("tasks", LastPr.id) = {}

C4_Witness ==
    /\ Verdicted
    /\ LastMergeStatus.conflicted
    /\ HasFailedBuildsVeto(LastMergeStatus)
    /\ ReviewersWith("UNAPPROVED") # {}
    /\ people_to_ping = {LastAuthor \o " (merge CONFLICT)"}

(***************************************************************************)
(* C5: a builds-not-finished veto whose detail has the failure marker      *)
(* leaves builds_have_failed true and builds_in_progress false, and the    *)
(* two flags are never both true, whatever else the payload lists.  A      *)
(* payload with a failed and a pending builds veto sets both: violated.    *)
(***************************************************************************)
C5_BuildFlagsExclusive ==
    merge_status_resolver # None =>
        /\ HasFailedBuildsVeto(LastMergeStatus) =>
               /\ merge_status_resolver.builds_have_failed
               /\ ~merge_status_resolver.builds_in_progress
        /\ ~(merge_status_resolver.builds_have_failed /\
             merge_status_resolver.builds_in_progress)

(***************************************************************************)
(* C6: a PR that is not conflicted, has no failed builds, no UNAPPROVED    *)
(* reviewer, no open task and only ignore-listed or builds-in-progress     *)
(* vetoes (or none) gets exactly the ping set {author handle}.             *)
(***************************************************************************)
C6_Precondition ==
    /\ Verdicted
    /\ ~LastMergeStatus.conflicted
    /\ ~HasFailedBuildsVeto(LastMergeStatus)
    /\ ReviewersWith("UNAPPROVED") = {}
    /\ OtherValidVetoes = {}

C6_NothingPendingPingsAuthor ==
    C6_Precondition =>
        /\ TasksAnswered
        /\ OpenTasksOfPage = <<>> => people_to_ping = {LastAuthor}

C6_Witness ==
    /\ C6_Precondition
    /\ TasksAnswered
    /\ OpenTasksOfPage = <<>>
    /\ response.json.values # <<>>
    /\ ReviewersWith("APPROVED") # {}
    /\ VETO_BUILD_NOT_FINISHED \in LastSummaries
    /\ LastSummaries \cap VETO_REASONS_WE_IGNORE # {}
    /\ people_to_ping = {LastAuthor}

(***************************************************************************)
(* C7: merge_vetos is exactly the set of the summaries of the payload's    *)
(* veto entries that are neither ignore-listed nor the builds-not-finished *)
(* marker, so it holds none of those and does not depend on the order of   *)
(* the entries.                                                            *)
(***************************************************************************)
C7_MergeVetosAreTheOtherSummaries ==
    merge_status_resolver # None =>
        /\ merge_vetos(merge_status_resolver) = OtherValidVetoes
        /\ merge_vetos(merge_status_resolver) \cap VETO_REASONS_WE_IGNORE = {}
        /\ VETO_BUILD_NOT_FINISHED \notin merge_vetos(merge_status_resolver)

C7_Witness ==
    /\ merge_status_resolver # None
    /\ Len(LastMergeStatus.vetoes) = 2
    /\ LastMergeStatus.vetoes[1].summaryMessage \in VETO_REASONS_WE_IGNORE
    /\ LastMergeStatus.vetoes[2].summaryMessage = "Needs rebase"
    /\ merge_vetos(merge_status_resolver) = {"Needs rebase"}

(***************************************************************************)
(* C8: for a PR neither conflicted nor with failed builds, the ping set    *)
(* holds the plain handle of every UNAPPROVED reviewer and of no APPROVED  *)
(* one, and an annotated author entry exactly when other valid vetoes or   *)
(* open tasks exist; with an unapproved reviewer and nothing unfinished    *)
(* the ping set is the unapproved reviewers alone.                         *)
(***************************************************************************)
C8_Precondition ==
    /\ Verdicted
    /\ ~LastMergeStatus.conflicted
    /\ ~HasFailedBuildsVeto(LastMergeStatus)

C8_ReviewersAndAnnotatedAuthor ==
    C8_Precondition =>
        /\ TasksAnswered
        /\ Handles(ReviewersWith("UNAPPROVED")) \subseteq people_to_ping
        /\ Handles(ReviewersWith("APPROVED")) \cap people_to_ping = {}
        /\ UnfinishedWork # {} =>
               \E e \in AnnotatedAuthorEntries :
                   people_to_ping =
                       Handles(ReviewersWith("UNAPPROVED")) \cup {e}
        /\ (UnfinishedWork = {} /\ ReviewersWith("UNAPPROVED") # {}) =>
               people_to_ping = Handles(ReviewersWith("UNAPPROVED"))
        /\ UnfinishedWork = {} =>
               people_to_ping \subseteq
                   Handles(ReviewersWith("UNAPPROVED")) \cup {LastAuthor}

C8_Witness ==
    /\ C8_Precondition
    /\ TasksAnswered
    /\ ReviewersWith("UNAPPROVED") # {}
    /\ ReviewersWith("APPROVED") # {}
    /\ Cardinality(UnfinishedWork) = 2
    /\ Cardinality(people_to_ping) = 2

(***************************************************************************)
(* C9: when the list fetch succeeds with an empty PR list, the run makes   *)
(* no merge-status or open-tasks request, posts nothing and ends normally. *)
(***************************************************************************)
C9_Precondition ==
    /\ pr_id = 0
    /\ requests # <<>>
    /\ ~FailedRequest(requests[1])
    /\ raw_prs = <<>>

C9_NoOpenPrsNoPost ==
    C9_Precondition =>
        /\ pc = "done"
        /\ error = "none"
        /\ Len(requests) = 1
        /\ slack_msgs = <<>>
        /\ posts = <<>>

C9_Witness ==
    /\ C9_Precondition
    /\ users # {}
    /\ pc = "done"
    /\ stdout = <<"No open PRs found">>

(***************************************************************************)
(* C10 as claimed: in a completed run every processed PR has exactly one   *)
(* merge-status request and exactly one open-tasks request, the former     *)
(* first, so there are twice as many per-PR requests as processed PRs.     *)
(***************************************************************************)
C10_TwoRequestsPerPr ==
    (pc = "done" /\ all_prs # <<>>) =>
        /\ \A i \in DOMAIN all_prs :
               /\ Cardinality(RequestsOf("merge", all_prs[i].id)) = 1
               /\ Cardinality(RequestsOf("tasks", all_prs[i].id)) = 1
               /\ \A m \in RequestsOf("merge", all_prs[i].id),
                     t \in RequestsOf("tasks", all_prs[i].id) : m < t
        /\ Cardinality(PerPrRequests) = 2 * Len(all_prs)

(***************************************************************************)
(* C10 amended: every processed PR has exactly one merge-status request    *)
(* and at most one open-tasks request: none when the PR is conflicted or   *)
(* has failed builds, otherwise exactly one, right after its merge-status  *)
(* request; a completed run makes between one and two per-PR requests per  *)
(* processed PR.                                                           *)
(***************************************************************************)
C10_MergeThenOptionalTasks ==
    /\ \A i \in 1..(idx - 1) :
           /\ Cardinality(RequestsOf("merge", all_prs[i].id)) = 1
           /\ Cardinality(RequestsOf("tasks", all_prs[i].id)) <= 1
           /\ \A t \in RequestsOf("tasks", all_prs[i].id) :
                  t - 1 \in RequestsOf("merge", all_prs[i].id)
    /\ Verdicted =>
           Cardinality(RequestsOf("tasks", LastPr.id)) =
               IF LastMergeStatus.conflicted \/
                  HasFailedBuildsVeto(LastMergeStatus)
               THEN 0 ELSE 1
    /\ pc = "done" =>
           /\ Len(all_prs) <= Cardinality(PerPrRequests)
           /\ Cardinality(PerPrRequests) <= 2 * Len(all_prs)
           /\ \A k \in PerPrRequests : ~FailedRequest(requests[k])

C10_Witness ==
    /\ pc = "done"
    /\ Len(all_prs) = 2
    /\ Cardinality(RequestsOf("tasks", all_prs[1].id)) = 1
    /\ Cardinality(RequestsOf("tasks", all_prs[2].id)) = 0
    /\ LastMergeStatus.conflicted

====
